---- MODULE Spec2Model ----
(***************************************************************************)
(* A model of src/script.js: the SC_API namespace class of the Swisscows   *)
(* browser client.  It covers the connection manager SwisscowsPuppet       *)
(* (connect / send / close over a host WebSocket), the message dispatcher  *)
(* handleSwssMSG, the outbound WSPayload and its JSON serialization, and   *)
(* the summarizer client ai_summary.                                       *)
(*                                                                         *)
(* JavaScript values are tagged records, so that a string, a number, an    *)
(* object and undefined are never equal to each other:                     *)
(*   Undef, Str(s), Num(n), Fn(name), Blob, Obj(<< <<key, value>>, ... >>) *)
(* An object keeps its properties in insertion order, as JSON.stringify    *)
(* reads them.  A JSON text is a string value that carries its tokens.     *)
(***************************************************************************)
EXTENDS Integers, Sequences, FiniteSets, TLC

VARIABLES
  host,         \* how the host's WebSocket constructor treats a relative URL
  ws_instance,  \* SwisscowsPuppet#ws_instance: NullHandle or an index of sockets
  sockets,      \* the WebSocket objects constructed so far, in creation order
  wire,         \* the frames handed to the network, in order: [on, frame]
  last,         \* what the most recent call of the API did (observation)
  wasClosed,    \* history: the instance has been in the closed state
  summary,      \* the ai_summary call in progress, or its settled promise
  inbound,      \* message events of one connection: delivered, and dispatched
  probes,       \* the testURI probes started so far, each with its image
  shots         \* the Screenshot instances constructed so far

vars == <<host, ws_instance, sockets, wire, last, wasClosed, summary,
          inbound, probes, shots>>

(***************************************************************************)
(* Bounds of the model.                                                    *)
(***************************************************************************)
MaxSockets == 2   \* WebSocket objects one instance constructs
MaxWire == 2      \* frames transmitted in one run

(***************************************************************************)
(* JavaScript values.                                                      *)
(***************************************************************************)
Undef == [t |-> "undefined"]
Str(s) == [t |-> "string", s |-> s]
Num(n) == [t |-> "number", n |-> n]
Fn(name) == [t |-> "function", name |-> name]
Blob == [t |-> "blob"]
Obj(props) == [t |-> "object", props |-> props]

\* obj[name]: an own property of an object; a string has no such property
\* (its wrapper object defines neither "type" nor "data"); a Blob has the
\* MIME type as "type", empty for a WebSocket frame.
GetProp(v, name) ==
  IF v.t = "object"
  THEN IF \E i \in DOMAIN v.props : v.props[i][1] = name
       THEN v.props[CHOOSE i \in DOMAIN v.props : v.props[i][1] = name][2]
       ELSE Undef
  ELSE IF v.t = "blob" /\ name = "type" THEN Str("")
  ELSE Undef

(***************************************************************************)
(* JSON.stringify.  The text of an object is the token sequence            *)
(*   {  key k1  v1  key k2  v2 ...  }                                      *)
(* in property order; a property whose value is undefined or a function    *)
(* is left out, as JSON.stringify leaves it out.                           *)
(***************************************************************************)
RECURSIVE JSON_tokens(_)
RECURSIVE JSON_props(_)

JSON_props(props) ==
  IF props = <<>> THEN <<>>
  ELSE LET p == Head(props) IN
       (IF p[2].t \in {"undefined", "function"}
        THEN <<>>
        ELSE <<[k |-> "key", s |-> p[1]]>> \o JSON_tokens(p[2]))
       \o JSON_props(Tail(props))

JSON_tokens(v) ==
  CASE v.t = "string" -> <<[k |-> "str", s |-> v.s]>>
    [] v.t = "number" -> <<[k |-> "num", n |-> v.n]>>
    [] v.t = "object" -> <<[k |-> "{"]>> \o JSON_props(v.props) \o <<[k |-> "}"]>>
    [] OTHER -> <<[k |-> "{"], [k |-> "}"]>>

JSON_stringify(v) ==
  IF v.t \in {"undefined", "function"} THEN Undef
  ELSE [t |-> "string", json |-> JSON_tokens(v)]

(***************************************************************************)
(* JSON.parse, the inverse of JSON.stringify on its texts.  The program    *)
(* never calls it; the properties use it to say what a text encodes.       *)
(***************************************************************************)
RECURSIVE JSON_value(_, _)
RECURSIVE JSON_members(_, _, _)

JSON_members(toks, i, acc) ==
  IF toks[i].k = "}"
  THEN [v |-> Obj(acc), next |-> i + 1]
  ELSE LET r == JSON_value(toks, i + 1) IN
       JSON_members(toks, r.next, Append(acc, <<toks[i].s, r.v>>))

JSON_value(toks, i) ==
  CASE toks[i].k = "str" -> [v |-> Str(toks[i].s), next |-> i + 1]
    [] toks[i].k = "num" -> [v |-> Num(toks[i].n), next |-> i + 1]
    [] OTHER -> JSON_members(toks, i + 1, <<>>)

IsJSONText(v) == v.t = "string" /\ "json" \in DOMAIN v

JSON_parse(text) == JSON_value(text.json, 1).v

(***************************************************************************)
(* WSPayload: the constructor assigns its six arguments to six fields.     *)
(***************************************************************************)
WSPayload(url, imageType, imageQuality, width, height, waitForEvent) ==
  Obj(<< <<"url", url>>,
         <<"imageType", imageType>>,
         <<"imageQuality", imageQuality>>,
         <<"width", width>>,
         <<"height", height>>,
         <<"waitForEvent", waitForEvent>> >>)

WSPayloadFields ==
  <<"url", "imageType", "imageQuality", "width", "height", "waitForEvent">>

\* The payloads a caller sends: fields of the documented types.
Payloads ==
  { WSPayload(Str(u), Str(it), Num(80), Num(1280), Num(800), Str("networkidle0")) :
      u \in {"https://example.com"}, it \in {"jpeg", "png"} }

\* TypedData(data, type): { type, data }, in that property order.
TypedData(data, type) == Obj(<< <<"type", Str(type)>>, <<"data", data>> >>)

(***************************************************************************)
(* The host's WebSocket.                                                   *)
(***************************************************************************)
ReadyState == [CONNECTING |-> 0, OPEN |-> 1, CLOSING |-> 2, CLOSED |-> 3]
WebSocket_OPEN == ReadyState.OPEN

NullHandle == 0

\* static ws = new URL("wss://browse.dev.swisscows.com/ws/")
SwisscowsPuppet_ws == Str("wss://browse.dev.swisscows.com/ws/")

\* The members an instance sees through `this`: the instance field
\* ws_instance and the prototype methods.  A static member (ws) is a property
\* of the constructor, not of the instance or of its prototype.
InstanceMembers == {"ws_instance", "connect", "send", "close"}

\* this.ws, the argument connect() gives to the WebSocket constructor.
this_ws == IF "ws" \in InstanceMembers THEN SwisscowsPuppet_ws ELSE Undef

\* The document's base URL with ws(s) scheme, for hosts that resolve a
\* relative WebSocket URL against it.
DocumentBase == "wss://document.host/"

Hosts == {"resolves-relative", "absolute-only"}

AbsoluteWsURLs == {"wss://browse.dev.swisscows.com/ws/"}

\* new WebSocket(url): the argument is converted to a string (undefined
\* becomes "undefined") and parsed.  An absolute ws: or wss: URL is taken
\* as it is.  Anything else is a relative reference: a host either resolves
\* it against the document's base URL or throws SyntaxError.
NewWebSocket(url, h) ==
  LET s == IF url.t = "string" THEN url.s ELSE "undefined" IN
  IF s \in AbsoluteWsURLs
  THEN [threw |-> "none", url |-> s]
  ELSE IF h = "resolves-relative"
       THEN [threw |-> "none", url |-> DocumentBase \o s]
       ELSE [threw |-> "SyntaxError", url |-> ""]

\* The manager's state as the spec names it.
StateOf(handle, socks) ==
  IF handle = NullHandle THEN "unconnected"
  ELSE CASE socks[handle].readyState = ReadyState.CONNECTING -> "connecting"
         [] socks[handle].readyState = ReadyState.OPEN -> "open"
         [] OTHER -> "closed"

InstanceState == StateOf(ws_instance, sockets)

\* The observation of one call: nothing done yet.
NoCall ==
  [op |-> "none", arg |-> Undef, opts |-> {}, pre |-> "unconnected",
   threw |-> "none", diagnostics |-> 0, sent |-> <<>>, ret |-> Undef,
   calls |-> <<>>]

(***************************************************************************)
(* WebSocket methods, as the host defines them for every ready state.      *)
(***************************************************************************)
\* socket.send(data): throws InvalidStateError while CONNECTING, hands the
\* frame to the network while OPEN, and discards it silently while CLOSING
\* or CLOSED.  On a null receiver the member access throws TypeError.
WebSocket_send(handle, socks, w, data) ==
  IF handle = NullHandle
  THEN [wire |-> w, threw |-> "TypeError", diagnostics |-> 0]
  ELSE CASE socks[handle].readyState = ReadyState.CONNECTING ->
              [wire |-> w, threw |-> "InvalidStateError", diagnostics |-> 0]
         [] socks[handle].readyState = ReadyState.OPEN ->
              [wire |-> Append(w, [on |-> handle, frame |-> data]),
               threw |-> "none", diagnostics |-> 0]
         [] OTHER ->
              [wire |-> w, threw |-> "none", diagnostics |-> 0]

\* socket.close(): a CONNECTING or OPEN socket starts closing; a CLOSING or
\* CLOSED socket is left as it is.  On a null receiver: TypeError.
WebSocket_close(handle, socks) ==
  IF handle = NullHandle
  THEN [sockets |-> socks, threw |-> "TypeError"]
  ELSE IF socks[handle].readyState \in {ReadyState.CONNECTING, ReadyState.OPEN}
       THEN [sockets |-> [socks EXCEPT ![handle].readyState = ReadyState.CLOSING],
             threw |-> "none"]
       ELSE [sockets |-> socks, threw |-> "none"]

(***************************************************************************)
(* SwisscowsPuppet: the three methods as functions of the instance's state.*)
(***************************************************************************)
\* A connect() that constructs the transport and returns it without keeping
\* it as the handle.
connect_impl_unassigned(handle, socks, h) ==
  LET r == NewWebSocket(this_ws, h) IN
  IF r.threw # "none"
  THEN [handle |-> handle, sockets |-> socks, threw |-> r.threw, ret |-> Undef]
  ELSE [handle |-> handle,
        sockets |-> Append(socks, [url |-> r.url,
                                   readyState |-> ReadyState.CONNECTING]),
        threw |-> "none",
        ret |-> Num(Len(socks) + 1)]

\* A connect() that stores the transport and returns nothing.
connect_impl_private(handle, socks, h) ==
  LET r == NewWebSocket(this_ws, h) IN
  IF r.threw # "none"
  THEN [handle |-> handle, sockets |-> socks, threw |-> r.threw, ret |-> Undef]
  ELSE [handle |-> Len(socks) + 1,
        sockets |-> Append(socks, [url |-> r.url,
                                   readyState |-> ReadyState.CONNECTING]),
        threw |-> "none",
        ret |-> Undef]

\* connect() { return this.ws_instance = new WebSocket(this.ws) }
\* When the constructor throws, the assignment does not happen.
connect_impl(handle, socks, h) ==
  LET r == NewWebSocket(this_ws, h) IN
  IF r.threw # "none"
  THEN [handle |-> handle, sockets |-> socks, threw |-> r.threw, ret |-> Undef]
  ELSE [handle |-> Len(socks) + 1,
        sockets |-> Append(socks, [url |-> r.url,
                                   readyState |-> ReadyState.CONNECTING]),
        threw |-> "none",
        ret |-> Num(Len(socks) + 1)]

\* A send() that hands the payload object itself to the socket.
send_impl_raw(payload, handle, socks, w) ==
  IF handle # NullHandle /\ socks[handle].readyState = WebSocket_OPEN
  THEN WebSocket_send(handle, socks, w, payload)
  ELSE [wire |-> w, threw |-> "none", diagnostics |-> 1]

\* A send() without the readiness test.
send_impl_unguarded(payload, handle, socks, w) ==
  WebSocket_send(handle, socks, w, JSON_stringify(payload))

\* A send() that keeps using the first transport the instance opened.
send_impl_first(payload, handle, socks, w) ==
  LET first == IF socks = <<>> THEN NullHandle ELSE 1 IN
  IF first # NullHandle /\ socks[first].readyState = WebSocket_OPEN
  THEN WebSocket_send(first, socks, w, JSON_stringify(payload))
  ELSE [wire |-> w, threw |-> "none", diagnostics |-> 1]

\* A send() that, when the handle is not OPEN, transmits on an earlier
\* transport that is.
send_impl_fallback(payload, handle, socks, w) ==
  LET open == { i \in DOMAIN socks : socks[i].readyState = WebSocket_OPEN } IN
  IF handle # NullHandle /\ socks[handle].readyState = WebSocket_OPEN
  THEN WebSocket_send(handle, socks, w, JSON_stringify(payload))
  ELSE IF open # {}
       THEN WebSocket_send(CHOOSE i \in open : TRUE, socks, w,
                           JSON_stringify(payload))
       ELSE [wire |-> w, threw |-> "none", diagnostics |-> 1]

\* send(payload): transmit the JSON text when the handle is set and OPEN,
\* else console.error once.
send_impl(payload, handle, socks, w) ==
  IF handle # NullHandle /\ socks[handle].readyState = WebSocket_OPEN
  THEN WebSocket_send(handle, socks, w, JSON_stringify(payload))
  ELSE [wire |-> w, threw |-> "none", diagnostics |-> 1]

\* A close() that also forgets the handle.
close_impl_forgets(handle, socks) ==
  LET r == WebSocket_close(handle, socks) IN
  [handle |-> IF r.threw = "none" THEN NullHandle ELSE handle,
   sockets |-> r.sockets, threw |-> r.threw]

\* A close() that tests the handle first: this.ws_instance?.close()
close_impl_guarded(handle, socks) ==
  IF handle = NullHandle
  THEN [handle |-> handle, sockets |-> socks, threw |-> "none"]
  ELSE LET r == WebSocket_close(handle, socks) IN
       [handle |-> handle, sockets |-> r.sockets, threw |-> r.threw]

\* close() { this.ws_instance.close() }
close_impl(handle, socks) ==
  LET r == WebSocket_close(handle, socks) IN
  [handle |-> handle, sockets |-> r.sockets, threw |-> r.threw]

(***************************************************************************)
(* handleSwssMSG(response, opts).  opts is the set of tags the caller      *)
(* registered a handler for; the handler registered for tag g is Fn(g).    *)
(* response is the message event: [data |-> value].                        *)
(***************************************************************************)
Tags == {"tracker", "screenshot", "error", "close"}

\* let { tracker, screenshot, error, close } = opts
opts_get(opts, tag) == IF tag \in opts THEN Fn(tag) ELSE Undef

\* A handle() that passes its two arguments in the other order.
handle_swapped(cb, payload, response) ==
  IF cb.t = "function"
  THEN [calls |-> <<[fn |-> cb, args |-> <<response, payload>>]>>,
        threw |-> "none"]
  ELSE [calls |-> <<>>, threw |-> "TypeError"]

\* function handle(cb) { return cb(payload, response) }: calling a value
\* that is not a function throws TypeError.
handle(cb, payload, response) ==
  IF cb.t = "function"
  THEN [calls |-> <<[fn |-> cb, args |-> <<payload, response>>]>>,
        threw |-> "none"]
  ELSE [calls |-> <<>>, threw |-> "TypeError"]

\* A dispatcher whose switch has a default case that reports to the error
\* handler.
handleSwssMSG_default(response, opts) ==
  LET type == GetProp(response.data, "type")
      payload == GetProp(response.data, "data")
  IN IF \E g \in Tags : type = Str(g)
     THEN handle(opts_get(opts, CHOOSE g \in Tags : type = Str(g)),
                 payload, response)
     ELSE handle(opts_get(opts, "error"), payload, response)

\* A dispatcher whose switch cases do not return: after the matching case
\* the handlers of the cases below it run as well.
handleSwssMSG_fallthrough(response, opts) ==
  LET order == <<"tracker", "screenshot", "error", "close">>
      type == GetProp(response.data, "type")
      payload == GetProp(response.data, "data")
      from == IF \E j \in 1..4 : type = Str(order[j])
              THEN CHOOSE j \in 1..4 : type = Str(order[j]) ELSE 5
      bad == { j \in from..4 : order[j] \notin opts }
      upto == IF bad = {} THEN 4
              ELSE (CHOOSE j \in bad : \A k \in bad : j <= k) - 1
  IN [calls |-> [n \in 1..(upto - from + 1) |->
                   [fn |-> Fn(order[from + n - 1]),
                    args |-> <<payload, response>>]],
      threw |-> IF bad = {} THEN "none" ELSE "TypeError"]

handleSwssMSG(response, opts) ==
  LET tracker == opts_get(opts, "tracker")
      screenshot == opts_get(opts, "screenshot")
      error == opts_get(opts, "error")
      close_cb == opts_get(opts, "close")
      type == GetProp(response.data, "type")
      payload == GetProp(response.data, "data")
  IN CASE type = Str("tracker") -> handle(tracker, payload, response)
       [] type = Str("screenshot") -> handle(screenshot, payload, response)
       [] type = Str("error") -> handle(error, payload, response)
       [] type = Str("close") -> handle(close_cb, payload, response)
       [] OTHER -> [calls |-> <<>>, threw |-> "none"]

(***************************************************************************)
(* Messages.                                                               *)
(***************************************************************************)
\* A Tracker constructor that stores the name as the base URL.
Tracker_misassigned(name, baseUrl, category) ==
  Obj(<< <<"name", name>>, <<"baseUrl", name>>, <<"category", category>> >>)

\* new Tracker(name, baseUrl, category)
Tracker(name, baseUrl, category) ==
  Obj(<< <<"name", name>>, <<"baseUrl", baseUrl>>, <<"category", category>> >>)

ScreenshotData == Str("data:image/jpeg;base64,AAAA")
TrackerData == Tracker(Str("ga"), Str("https://ga.example"), Str("Advertising"))

\* Tagged payloads as objects.
TaggedPayloads ==
  { TypedData(ScreenshotData, "screenshot"),
    TypedData(TrackerData, "tracker"),
    TypedData(Str("bye"), "close") }

\* What the transport delivers: the text encodings of tagged payloads.
InboundFrames == { JSON_stringify(m) : m \in TaggedPayloads }

HandlerSets == SUBSET Tags

\* The handler sets a session's message listener dispatches with.
SessionHandlerSets == { {}, {"screenshot"}, Tags }

(***************************************************************************)
(* The connection manager and its transports: specification Spec.          *)
(***************************************************************************)
Init ==
  /\ host \in Hosts
  /\ ws_instance = NullHandle
  /\ sockets = <<>>
  /\ wire = <<>>
  /\ last = NoCall
  /\ wasClosed = FALSE
  /\ summary = [pc |-> "idle"]
  /\ inbound = [delivered |-> <<>>, log |-> <<>>]
  /\ probes = <<>>
  /\ shots = <<>>

Closed(h, socks) == StateOf(h, socks) = "closed"

connect ==
  LET r == connect_impl(ws_instance, sockets, host) IN
  /\ Len(r.sockets) <= MaxSockets
  /\ ws_instance' = r.handle
  /\ sockets' = r.sockets
  /\ last' = [NoCall EXCEPT !.op = "connect", !.pre = InstanceState,
                            !.threw = r.threw, !.ret = r.ret]
  /\ wasClosed' = (wasClosed \/ Closed(r.handle, r.sockets))
  /\ UNCHANGED <<host, wire, summary,
               inbound, probes, shots>>

send(payload) ==
  LET r == send_impl(payload, ws_instance, sockets, wire) IN
  /\ Len(r.wire) <= MaxWire
  /\ wire' = r.wire
  /\ last' = [NoCall EXCEPT !.op = "send", !.arg = payload,
                            !.pre = InstanceState, !.threw = r.threw,
                            !.diagnostics = r.diagnostics,
                            !.sent = SubSeq(r.wire, Len(wire) + 1, Len(r.wire))]
  /\ UNCHANGED <<host, ws_instance, sockets, wasClosed, summary,
               inbound, probes, shots>>

close ==
  LET r == close_impl(ws_instance, sockets) IN
  /\ ws_instance' = r.handle
  /\ sockets' = r.sockets
  /\ last' = [NoCall EXCEPT !.op = "close", !.pre = InstanceState,
                            !.threw = r.threw]
  /\ wasClosed' = (wasClosed \/ Closed(r.handle, r.sockets))
  /\ UNCHANGED <<host, wire, summary,
               inbound, probes, shots>>

\* The opening handshake of socket i completes.
HandshakeComplete(i) ==
  /\ sockets[i].readyState = ReadyState.CONNECTING
  /\ sockets' = [sockets EXCEPT ![i].readyState = ReadyState.OPEN]
  /\ wasClosed' = (wasClosed \/ Closed(ws_instance, sockets'))
  /\ UNCHANGED <<host, ws_instance, wire, last, summary,
               inbound, probes, shots>>

\* Socket i closes: the handshake fails, the remote side closes, or the
\* closing handshake started by close() completes.
TransportClosed(i) ==
  /\ sockets[i].readyState # ReadyState.CLOSED
  /\ sockets' = [sockets EXCEPT ![i].readyState = ReadyState.CLOSED]
  /\ wasClosed' = (wasClosed \/ Closed(ws_instance, sockets'))
  /\ UNCHANGED <<host, ws_instance, wire, last, summary,
               inbound, probes, shots>>

\* Socket i delivers a text frame and the caller's message listener hands
\* the event to handleSwssMSG with its handlers.
Receive(i, frame, opts) ==
  /\ sockets[i].readyState \in {ReadyState.OPEN, ReadyState.CLOSING}
  /\ LET response == [data |-> frame]
         r == handleSwssMSG(response, opts)
     IN last' = [NoCall EXCEPT !.op = "handleSwssMSG", !.arg = response,
                               !.opts = opts, !.pre = InstanceState,
                               !.threw = r.threw, !.calls = r.calls]
  /\ UNCHANGED <<host, ws_instance, sockets, wire, wasClosed, summary,
               inbound, probes, shots>>

Next ==
  \/ connect
  \/ \E payload \in Payloads : send(payload)
  \/ close
  \/ \E i \in DOMAIN sockets : HandshakeComplete(i)
  \/ \E i \in DOMAIN sockets : TransportClosed(i)
  \/ \E i \in DOMAIN sockets, frame \in InboundFrames, opts \in SessionHandlerSets :
       Receive(i, frame, opts)

Spec == Init /\ [][Next]_vars

(***************************************************************************)
(* The dispatcher alone: specification SpecDispatch.  The caller hands     *)
(* handleSwssMSG a message event whose data is a decoded tagged payload,   *)
(* a text frame or a binary frame, with any set of handlers.               *)
(***************************************************************************)
MessageTypes == Tags \cup {"foo"}

DecodedMessages ==
  { TypedData(d, ty) : d \in {ScreenshotData, TrackerData}, ty \in MessageTypes }
  \cup { Obj(<< <<"data", ScreenshotData>> >>) }

TextMessages ==
  InboundFrames \cup { JSON_stringify(TypedData(ScreenshotData, "foo")) }

Responses == { [data |-> d] : d \in DecodedMessages \cup TextMessages \cup {Blob} }

Dispatch(response, opts) ==
  /\ LET r == handleSwssMSG(response, opts)
     IN last' = [NoCall EXCEPT !.op = "handleSwssMSG", !.arg = response,
                               !.opts = opts, !.threw = r.threw,
                               !.calls = r.calls]
  /\ UNCHANGED <<host, ws_instance, sockets, wire, wasClosed, summary,
               inbound, probes, shots>>

NextDispatch == \E response \in Responses, opts \in HandlerSets : Dispatch(response, opts)

SpecDispatch == Init /\ [][NextDispatch]_vars

(***************************************************************************)
(* ai_summary(website, language = 'en'): specification SpecSummary.        *)
(***************************************************************************)
AI_ROUTE == Str("https://summarizer.dev.swisscows.com/summarize")

\* new URL(s): the strings it accepts, each with the href it serializes to
\* (an empty path becomes "/"); it throws TypeError on any other string.
URL_href ==
  [u \in { Str("https://example.com"), Str("https://swisscows.com/en"),
           Str("https://example.org/a?b=c") } |->
     IF u = Str("https://example.com") THEN Str("https://example.com/") ELSE u]

ValidURLs == DOMAIN URL_href

Websites == ValidURLs \cup { Str("not a url") }
Languages == { Undef, Str("en"), Str("de") }

\* What fetch resolves with: a Response, whatever its status, whose body
\* is the summary text or empty.
FetchResponses ==
  { [t |-> "response", status |-> st, body |-> b] :
      st \in {200, 500}, b \in {"A short summary.", ""} }

Settled(st, value) == [state |-> st, value |-> value]

\* Lines 5-8 up to the call of fetch: the default of language, the two
\* URL constructions and the two query parameters.
ai_summary_request(website, language) ==
  LET lang == IF language = Undef THEN Str("en") ELSE language IN
  IF website \notin ValidURLs
  THEN [threw |-> "TypeError", request |-> Undef]
  ELSE [threw |-> "none",
        request |-> [method |-> "POST", url |-> AI_ROUTE,
                     searchParams |-> << <<"url", URL_href[website]>>,
                                         <<"language", lang>> >>]]

\* The call: an async function turns a thrown error into a rejected promise.
ai_summary(website, language) ==
  /\ summary.pc \in {"idle", "settled"}
  /\ LET r == ai_summary_request(website, language) IN
     summary' =
       IF r.threw # "none"
       THEN [pc |-> "settled", website |-> website, language |-> language,
             promise |-> Settled("rejected", Str(r.threw))]
       ELSE [pc |-> "fetching", website |-> website, language |-> language,
             request |-> r.request]
  /\ UNCHANGED <<host, ws_instance, sockets, wire, last, wasClosed,
               inbound, probes, shots>>

\* (await fetch(...))?.text?.(): a value that is null or undefined, or has
\* no text method, yields undefined at once; a Response starts reading.
FetchFulfilled(response) ==
  /\ summary.pc = "fetching"
  /\ summary' =
       IF response.t = "response"
       THEN [pc |-> "reading", website |-> summary.website,
             language |-> summary.language, request |-> summary.request,
             response |-> response]
       ELSE [pc |-> "settled", website |-> summary.website,
             language |-> summary.language, request |-> summary.request,
             promise |-> Settled("fulfilled", Undef)]
  /\ UNCHANGED <<host, ws_instance, sockets, wire, last, wasClosed,
               inbound, probes, shots>>

\* fetch rejects (the network call fails): the await throws, nothing
\* catches it, and the promise of ai_summary rejects with the same error.
FetchRejected ==
  /\ summary.pc = "fetching"
  /\ summary' = [pc |-> "settled", website |-> summary.website,
                 language |-> summary.language, request |-> summary.request,
                 promise |-> Settled("rejected", Str("TypeError"))]
  /\ UNCHANGED <<host, ws_instance, sockets, wire, last, wasClosed,
               inbound, probes, shots>>

\* response.text() resolves with the body.
TextFulfilled ==
  /\ summary.pc = "reading"
  /\ summary' = [pc |-> "settled", website |-> summary.website,
                 language |-> summary.language, request |-> summary.request,
                 response |-> summary.response,
                 promise |-> Settled("fulfilled", Str(summary.response.body))]
  /\ UNCHANGED <<host, ws_instance, sockets, wire, last, wasClosed,
               inbound, probes, shots>>

\* response.text() rejects (the body cannot be read to its end).
TextRejected ==
  /\ summary.pc = "reading"
  /\ summary' = [pc |-> "settled", website |-> summary.website,
                 language |-> summary.language, request |-> summary.request,
                 response |-> summary.response,
                 promise |-> Settled("rejected", Str("TypeError"))]
  /\ UNCHANGED <<host, ws_instance, sockets, wire, last, wasClosed,
               inbound, probes, shots>>

NextSummary ==
  \/ \E website \in Websites, language \in Languages : ai_summary(website, language)
  \/ \E response \in FetchResponses : FetchFulfilled(response)
  \/ FetchRejected
  \/ TextFulfilled
  \/ TextRejected

SpecSummary == Init /\ [][NextSummary]_vars

(***************************************************************************)
(* Properties.                                                             *)
(***************************************************************************)
Live == {ReadyState.CONNECTING, ReadyState.OPEN}

\* The tag a message carries: the type property of a decoded payload, or
\* the type its text encodes; a binary frame carries none.
MessageTag(response) ==
  IF response.data.t = "object" THEN GetProp(response.data, "type")
  ELSE IF IsJSONText(response.data)
       THEN GetProp(JSON_parse(response.data), "type")
       ELSE Undef

TagValues == { Str(g) : g \in Tags }

\* C1: a send() made while the manager is not open (unconnected, connecting
\* or closed) transmits nothing on any transport, does not throw, and emits
\* exactly one diagnostic.
C1_SendNotOpen ==
  (last.op = "send" /\ last.pre # "open") =>
    /\ last.sent = <<>>
    /\ last.threw = "none"
    /\ last.diagnostics = 1

\* A send() was diagnosed on a closed instance that had transmitted before.
C1_Witness ==
  /\ last.op = "send" /\ last.pre = "closed"
  /\ last.diagnostics = 1
  /\ wire # <<>>

\* C2: a message whose tag is one of the four, dispatched with a handler set
\* that registers no handler for that tag, invokes no callback and raises
\* no error.
C2_UnregisteredTagDropped ==
  (/\ last.op = "handleSwssMSG"
   /\ last.arg.data.t = "object"
   /\ \E g \in Tags \ last.opts : MessageTag(last.arg) = Str(g))
  => (last.calls = <<>> /\ last.threw = "none")

\* C3: a message whose type is outside the four tags invokes no callback
\* and raises no error, whatever handlers are registered.
C3_UnknownTypeDropped ==
  (last.op = "handleSwssMSG" /\ MessageTag(last.arg) \notin TagValues) =>
    (last.calls = <<>> /\ last.threw = "none")

\* A message of type "foo" was dispatched with all four handlers registered.
C3_Witness ==
  /\ last.op = "handleSwssMSG"
  /\ MessageTag(last.arg) = Str("foo")
  /\ last.opts = Tags
  /\ last.calls = <<>>

\* C4: a decoded message {type, data} whose type has a registered handler
\* invokes exactly that handler, once, with (data, the raw message), and no
\* other handler.
C4_RegisteredHandlerInvoked ==
  \A g \in Tags :
    (/\ last.op = "handleSwssMSG"
     /\ last.arg.data.t = "object"
     /\ GetProp(last.arg.data, "type") = Str(g)
     /\ g \in last.opts)
    => /\ last.calls = <<[fn |-> Fn(g),
                          args |-> <<GetProp(last.arg.data, "data"), last.arg>>]>>
       /\ last.threw = "none"

\* An "error" message was routed while all four handlers were registered.
C4_Witness ==
  /\ last.op = "handleSwssMSG"
  /\ last.arg.data.t = "object"
  /\ GetProp(last.arg.data, "type") = Str("error")
  /\ last.opts = Tags
  /\ Len(last.calls) = 1

\* C5 as claimed: once the instance has been closed it is never open again.
C5_ClosedIsTerminal == wasClosed => InstanceState # "open"

\* C5, amended: closed lasts until the next connect().  From the closed
\* state, every step that constructs no new transport (send, close, any
\* transport event) leaves the instance closed and transmits nothing; a
\* connect() that constructs a transport makes the instance connecting.
C5_ClosedUntilConnect ==
  [][InstanceState = "closed" =>
       IF Len(sockets') = Len(sockets)
       THEN InstanceState' = "closed" /\ wire' = wire
       ELSE InstanceState' = "connecting"]_vars

\* close() was called on an instance that was already closed, and left it so.
C5_Witness ==
  /\ wasClosed
  /\ last.op = "close" /\ last.pre = "closed" /\ last.threw = "none"
  /\ InstanceState = "closed"

\* C6 as claimed: at most one transport of the instance is live at a time.
C6_AtMostOneLive ==
  Cardinality({ i \in DOMAIN sockets : sockets[i].readyState \in Live }) <= 1

\* C6, amended: the instance holds at most one handle, and it is the
\* transport its most recent successful connect() constructed (none before
\* the first); connect() does not shut down the transport it replaces.
C6_HandleIsNewest ==
  IF sockets = <<>>
  THEN ws_instance = NullHandle
  ELSE ws_instance = Len(sockets)

\* After a second connect() the first transport is still live.
C6_Witness ==
  /\ Len(sockets) >= 2
  /\ ws_instance = Len(sockets)
  /\ last.op = "connect"
  /\ sockets[1].readyState \in Live

\* C7: every connect() constructs the transport to the class constant
\* SwisscowsPuppet.ws, stores it as the handle and returns it.
C7_ConnectsToEndpoint ==
  /\ \A i \in DOMAIN sockets : Str(sockets[i].url) = SwisscowsPuppet_ws
  /\ last.op = "connect" =>
       /\ last.threw = "none"
       /\ ws_instance # NullHandle
       /\ last.ret = Num(ws_instance)

\* C8: a send() made while the current transport is open transmits exactly
\* one frame, on that transport; the frame is the JSON text of the payload
\* and carries its six fields; no diagnostic, no throw.
C8_SendOpen ==
  (last.op = "send" /\ last.pre = "open") =>
    /\ last.threw = "none"
    /\ last.diagnostics = 0
    /\ Len(last.sent) = 1
    /\ last.sent[1].on = ws_instance
    /\ wire[Len(wire)] = last.sent[1]
    /\ IsJSONText(last.sent[1].frame)
    /\ LET decoded == JSON_parse(last.sent[1].frame) IN
       /\ decoded.t = "object"
       /\ [i \in DOMAIN decoded.props |-> decoded.props[i][1]] = WSPayloadFields
       /\ \A i \in DOMAIN WSPayloadFields :
            /\ GetProp(decoded, WSPayloadFields[i]) = GetProp(last.arg, WSPayloadFields[i])
            /\ GetProp(decoded, WSPayloadFields[i]) # Undef

\* A payload was transmitted on the second transport of the instance.
C8_Witness ==
  /\ last.op = "send" /\ last.pre = "open"
  /\ Len(last.sent) = 1
  /\ last.sent[1].on = ws_instance
  /\ ws_instance > 1

\* C9: ai_summary never rejects: on a failed network call or a response
\* without text the promise resolves to an absent or empty value, and on a
\* text body it resolves to exactly that text.
C9_NeverRejects ==
  (summary.pc = "settled" /\ summary.website \in ValidURLs) =>
    /\ summary.promise.state = "fulfilled"
    /\ "response" \in DOMAIN summary =>
         summary.promise.value = Str(summary.response.body)

\* C10: in a session (connect, handshake, send transmitted), a delivered
\* frame that is the text encoding of {type: "screenshot", data: s},
\* dispatched with a screenshot handler registered, invokes that handler
\* with (s, the raw message).
C10_SessionScreenshot ==
  (/\ last.op = "handleSwssMSG"
   /\ last.pre = "open"
   /\ \E j \in DOMAIN wire : wire[j].on = ws_instance
   /\ last.arg.data = JSON_stringify(TypedData(ScreenshotData, "screenshot"))
   /\ "screenshot" \in last.opts)
  => last.calls = <<[fn |-> Fn("screenshot"),
                     args |-> <<ScreenshotData, last.arg>>]>>

(***************************************************************************)
(* TrackerPayload(name, baseUrl, category): specification SpecTracker.     *)
(***************************************************************************)
\* static FingerprintingGeneral_category, Advertising_category,
\* Content_category
TrackerCategories ==
  { Str("FingerprintingGeneral"), Str("Advertising"), Str("Content") }

TrackerPayload(name, baseUrl, category) ==
  TypedData(Tracker(name, baseUrl, category), "tracker")

\* The arguments a caller passes: the documented strings, a string outside
\* the three category constants, and an omitted argument (undefined).
TrackerNames == { Str("ga"), Str("pixel"), Str("cdn"), Str("") }
TrackerBaseUrls ==
  { Str("https://ga.example"), Str("https://px.example"),
    Str("https://cdn.example"), Str(""), Undef }
TrackerCategoryArgs == TrackerCategories \cup { Str("Bogus"), Undef }

Arguments(list) == [t |-> "arguments", list |-> list]

CallTrackerPayload(name, baseUrl, category) ==
  /\ last' = [NoCall EXCEPT !.op = "TrackerPayload",
                            !.arg = Arguments(<<name, baseUrl, category>>),
                            !.ret = TrackerPayload(name, baseUrl, category)]
  /\ UNCHANGED <<host, ws_instance, sockets, wire, wasClosed, summary,
                 inbound, probes, shots>>

NextTracker ==
  \E name \in TrackerNames, baseUrl \in TrackerBaseUrls,
     category \in TrackerCategoryArgs :
    CallTrackerPayload(name, baseUrl, category)

SpecTracker == Init /\ [][NextTracker]_vars

\* The own property names of an object, in order.
Keys(v) == [i \in DOMAIN v.props |-> v.props[i][1]]

\* C11: TrackerPayload(name, baseUrl, category) round-trips: its type is
\* "tracker" and its data is an object with exactly the three fields name,
\* baseUrl and category, equal to the arguments.
C11_TrackerRoundTrip ==
  last.op = "TrackerPayload" =>
    LET d == GetProp(last.ret, "data") IN
    /\ Keys(last.ret) = <<"type", "data">>
    /\ GetProp(last.ret, "type") = Str("tracker")
    /\ d.t = "object"
    /\ Keys(d) = <<"name", "baseUrl", "category">>
    /\ GetProp(d, "name") = last.arg.list[1]
    /\ GetProp(d, "baseUrl") = last.arg.list[2]
    /\ GetProp(d, "category") = last.arg.list[3]

\* A payload was built whose three fields are three different strings.
C11_Witness ==
  /\ last.op = "TrackerPayload"
  /\ last.arg.list = <<Str("pixel"), Str("https://px.example"), Str("Content")>>
  /\ GetProp(GetProp(last.ret, "data"), "baseUrl") = Str("https://px.example")

\* C19: every payload built by TrackerPayload carries a category from the
\* closed set {FingerprintingGeneral, Advertising, Content}.
C19_CategoryInClosedSet ==
  last.op = "TrackerPayload" =>
    GetProp(GetProp(last.ret, "data"), "category") \in TrackerCategories

(***************************************************************************)
(* Screenshot and its validity probe: specification SpecScreenshot.        *)
(*                                                                         *)
(* A probe is one call of testURI: [uri, src, handlers, request, fired,    *)
(* removes, promise].  request says whether the host is still loading the  *)
(* image; fired is the event the host fired on it; removes counts the      *)
(* calls of img.remove(); promise is "pending", "true" or "false", the     *)
(* state of the promise testURI returned.                                  *)
(* A Screenshot instance is [data, LOADED, then, probe]: then is "pending" *)
(* until the callback given to .then() has run.                            *)
(***************************************************************************)
MaxProbes == 2   \* testURI probes started in one run

Bool(b) == [t |-> "boolean", b |-> b]

\* The URIs the host can load and decode as an image.
Loadable == { ScreenshotData }

ScreenshotURIs ==
  { ScreenshotData, Str("https://unreachable.invalid/shot.png"),
    Str("https://example.com/page.html") }

ImageEvents == {"load", "error", "abort"}

\* resolve(value) of the promise of a probe: only the first call settles it.
resolve(p, value) ==
  IF p.promise = "pending"
  THEN [p EXCEPT !.promise = IF value THEN "true" ELSE "false"]
  ELSE p

\* img.remove()
img_remove(p) == [p EXCEPT !.removes = @ + 1]

\* A fail() that resolves without removing the image.
fail_unreleased(p) == resolve(p, FALSE)

\* function fail() { img.remove(), resolve(false) }
fail(p) == resolve(img_remove(p), FALSE)

\* function pass() { img.remove(), resolve(true) }
pass(p) == resolve(img_remove(p), TRUE)

\* makeImgOpts(uri, img, resolve): the properties testURI assigns to img.
makeImgOpts(uri) ==
  [src |-> uri, onload |-> "pass", onerror |-> "fail", onabort |-> "fail"]

\* testURI(uri): a new Image with the options assigned; assigning src
\* starts the request, and the promise is pending.
testURI(uri) ==
  LET o == makeImgOpts(uri) IN
  [uri |-> uri, src |-> o.src,
   handlers |-> [load |-> o.onload, error |-> o.onerror, abort |-> o.onabort],
   request |-> "loading", fired |-> "none", removes |-> 0,
   promise |-> "pending"]

\* new Screenshot(data) as an object: LOADED = false, then this.data = data.
Screenshot(data) == Obj(<< <<"LOADED", Bool(FALSE)>>, <<"data", data>> >>)

\* A ScreenshotPayload that wraps the Screenshot object itself.
ScreenshotPayload_whole(data) == TypedData(Screenshot(data), "screenshot")

\* ScreenshotPayload(data): wraps the data field of a new Screenshot.
ScreenshotPayload(data) ==
  TypedData(GetProp(Screenshot(data), "data"), "screenshot")

\* A .then() callback that marks the screenshot loaded whatever the result.
then_LOADED_always(shot, res) == [shot EXCEPT !.LOADED = TRUE, !.then = "done"]

\* res => this.LOADED = res
then_LOADED(shot, res) == [shot EXCEPT !.LOADED = res, !.then = "done"]

\* The constructor: the instance, and the probe it starts.
Construct(data) ==
  /\ Len(probes) < MaxProbes
  /\ probes' = Append(probes, testURI(data))
  /\ shots' = Append(shots,
                [data |-> GetProp(Screenshot(data), "data"),
                 LOADED |-> GetProp(Screenshot(data), "LOADED").b,
                 then |-> "pending",
                 probe |-> Len(probes) + 1])

\* new Screenshot(data), called by the host application.
NewScreenshot(data) ==
  /\ Construct(data)
  /\ last' = [NoCall EXCEPT !.op = "Screenshot", !.arg = data]
  /\ UNCHANGED <<host, ws_instance, sockets, wire, wasClosed, summary, inbound>>

\* ScreenshotPayload(data): constructs a Screenshot, returns the payload.
CallScreenshotPayload(data) ==
  /\ Construct(data)
  /\ last' = [NoCall EXCEPT !.op = "ScreenshotPayload", !.arg = data,
                            !.ret = ScreenshotPayload(data)]
  /\ UNCHANGED <<host, ws_instance, sockets, wire, wasClosed, summary, inbound>>

\* Screenshot.testURI(uri), called directly.
CallTestURI(uri) ==
  /\ Len(probes) < MaxProbes
  /\ probes' = Append(probes, testURI(uri))
  /\ last' = [NoCall EXCEPT !.op = "testURI", !.arg = uri]
  /\ UNCHANGED <<host, ws_instance, sockets, wire, wasClosed, summary,
                 inbound, shots>>

\* The handler of a probe for an event, run on the probe.
RunHandler(p, ev) ==
  IF p.handlers[ev] = "pass" THEN pass(p) ELSE fail(p)

\* The host ends the request of probe i and fires one event on its image:
\* load when the URI loads and decodes, error when it does not, abort when
\* the load is aborted.  The handler assigned for the event runs.
ImageEvent(i, ev) ==
  /\ probes[i].request = "loading"
  /\ ev = "load" => probes[i].src \in Loadable
  /\ ev = "error" => probes[i].src \notin Loadable
  /\ probes' = [probes EXCEPT
                  ![i] = RunHandler([@ EXCEPT !.request = "done", !.fired = ev], ev)]
  /\ UNCHANGED <<host, ws_instance, sockets, wire, last, wasClosed, summary,
                 inbound, shots>>

\* The promise of the probe of screenshot k is settled: the callback given
\* to .then() runs, once.
Reaction(k) ==
  /\ shots[k].then = "pending"
  /\ probes[shots[k].probe].promise # "pending"
  /\ shots' = [shots EXCEPT
                 ![k] = then_LOADED(@, probes[shots[k].probe].promise = "true")]
  /\ UNCHANGED <<host, ws_instance, sockets, wire, last, wasClosed, summary,
                 inbound, probes>>

NextScreenshot ==
  \/ \E data \in ScreenshotURIs : NewScreenshot(data)
  \/ \E data \in ScreenshotURIs : CallScreenshotPayload(data)
  \/ \E uri \in ScreenshotURIs : CallTestURI(uri)
  \/ \E i \in DOMAIN probes, ev \in ImageEvents : ImageEvent(i, ev)
  \/ \E k \in DOMAIN shots : Reaction(k)

SpecScreenshot == Init /\ [][NextScreenshot]_vars

\* The host ends every image request it started, and runs every promise
\* callback that is due.
SpecScreenshotFair ==
  /\ Init /\ [][NextScreenshot]_vars
  /\ \A i \in 1..MaxProbes :
       /\ WF_vars(i \in DOMAIN probes /\ \E ev \in ImageEvents : ImageEvent(i, ev))
       /\ WF_vars(i \in DOMAIN shots /\ Reaction(i))

\* C12: for every string s, ScreenshotPayload(s) is exactly
\* {type: "screenshot", data: s}: no loaded flag in it, and the same
\* before and after the probe started on s has produced its result.
C12_ScreenshotPayloadExact ==
  last.op = "ScreenshotPayload" =>
    /\ Keys(last.ret) = <<"type", "data">>
    /\ GetProp(last.ret, "type") = Str("screenshot")
    /\ GetProp(last.ret, "data") = last.arg
    /\ last.ret = TypedData(last.arg, "screenshot")

\* A payload was built for a loadable image, the screenshot of that data
\* has since been marked loaded, and the payload has its two fields only.
C12_Witness ==
  /\ last.op = "ScreenshotPayload"
  /\ Keys(last.ret) = <<"type", "data">>
  /\ \E k \in DOMAIN shots :
       /\ Str(shots[k].data.s) = last.arg
       /\ shots[k].then = "done"
       /\ shots[k].LOADED

\* C13: LOADED is false at construction and is written at most once, by the
\* callback of the probe the constructor started, with that probe's result;
\* after that write the instance no longer changes.
C13_LoadedWrittenOnce ==
  [][/\ \A k \in DOMAIN shots' \ DOMAIN shots :
          ~shots'[k].LOADED /\ shots'[k].then = "pending"
     /\ \A k \in DOMAIN shots :
          /\ shots[k].then = "done" => shots'[k] = shots[k]
          /\ shots'[k] # shots[k] =>
               /\ shots[k].then = "pending"
               /\ shots'[k].then = "done"
               /\ probes[shots[k].probe].promise # "pending"
               /\ shots'[k].LOADED = (probes[shots[k].probe].promise = "true")
               /\ shots'[k].data = shots[k].data
               /\ shots'[k].probe = shots[k].probe]_vars

\* One screenshot was marked loaded and another had false written to it.
C13_Witness ==
  /\ \E k \in DOMAIN shots : shots[k].then = "done" /\ shots[k].LOADED
  /\ \E k \in DOMAIN shots :
       /\ shots[k].then = "done" /\ ~shots[k].LOADED
       /\ probes[shots[k].probe].fired = "abort"

ProbeSafe(p) ==
  /\ p.promise \in {"pending", "true", "false"}
  /\ p.promise = "pending" => (p.removes = 0 /\ p.fired = "none")
  /\ p.promise = "true" => (p.removes = 1 /\ p.fired = "load")
  /\ p.promise = "false" => (p.removes = 1 /\ p.fired \in {"error", "abort"})
  /\ p.fired # "none" => p.promise # "pending"

\* C14: a probe resolves true when the image loads and false when loading
\* fails or is aborted, it never rejects, the image is removed exactly
\* once on each of these paths (and not before), and a probe of a URI that
\* cannot be loaded eventually resolves false.
C14_ProbeResolvesAndReleases ==
  /\ [](\A i \in DOMAIN probes : ProbeSafe(probes[i]))
  /\ \A i \in 1..MaxProbes :
       (i \in DOMAIN probes /\ probes[i].uri \notin Loadable)
         ~> (i \in DOMAIN probes /\ probes[i].promise = "false"
             /\ probes[i].removes = 1)

\* A probe of an unreachable URI ended with the error event and resolved
\* false, and a probe of a loadable one resolved true.
C14_Witness ==
  /\ \E i \in DOMAIN probes :
       /\ probes[i].uri \notin Loadable
       /\ probes[i].fired = "error" /\ probes[i].promise = "false"
       /\ probes[i].removes = 1
  /\ \E i \in DOMAIN probes : probes[i].promise = "true"

(***************************************************************************)
(* One connection's inbound messages: specification SpecInbound.  The      *)
(* transport queues one message event per text frame, in arrival order;    *)
(* the event loop runs the caller's message listener on one event at a     *)
(* time, to completion.  The listener hands handleSwssMSG either the event *)
(* itself or an event whose data is the parsed frame.                      *)
(***************************************************************************)
MaxInbox == 2   \* message events delivered on the connection

ListenerModes == {"raw", "parsed"}

\* The transport delivers a text frame: its message event joins the queue.
Deliver(frame) ==
  /\ Len(inbound.delivered) < MaxInbox
  /\ inbound' = [inbound EXCEPT !.delivered = Append(@, frame)]
  /\ UNCHANGED <<host, ws_instance, sockets, wire, last, wasClosed, summary,
               probes, shots>>

\* The event loop takes the oldest event not yet handled and runs the
\* listener on it; handleSwssMSG returns before the loop takes another.
DispatchNext(mode, opts) ==
  /\ Len(inbound.log) < Len(inbound.delivered)
  /\ LET k == Len(inbound.log) + 1
         frame == inbound.delivered[k]
         response == [data |-> IF mode = "parsed" THEN JSON_parse(frame)
                               ELSE frame]
         r == handleSwssMSG(response, opts)
     IN inbound' = [inbound EXCEPT
                      !.log = Append(@, [message |-> k, response |-> response,
                                         opts |-> opts, calls |-> r.calls,
                                         threw |-> r.threw])]
  /\ UNCHANGED <<host, ws_instance, sockets, wire, last, wasClosed, summary,
               probes, shots>>

NextInbound ==
  \/ \E frame \in InboundFrames : Deliver(frame)
  \/ \E mode \in ListenerModes, opts \in SessionHandlerSets :
       DispatchNext(mode, opts)

SpecInbound == Init /\ [][NextInbound]_vars

\* What message event k was about: the frame the transport delivered.
FrameOf(entry) ==
  IF IsJSONText(entry.response.data) THEN entry.response.data
  ELSE JSON_stringify(entry.response.data)

C17_CloseDereferencesHandle ==
  /\ [](last.op = "close" =>
          IF last.pre = "unconnected"
          THEN /\ last.threw = "TypeError"
               /\ ws_instance = NullHandle
               /\ sockets = <<>>
          ELSE /\ last.threw = "none"
               /\ ws_instance # NullHandle
               /\ sockets[ws_instance].readyState
                    \in {ReadyState.CLOSING, ReadyState.CLOSED})
  /\ [][ws_instance = NullHandle =>
          \A i \in DOMAIN sockets' : sockets'[i].readyState # ReadyState.CLOSING]_vars

\* close() was called before any connect() on a host where connect() would
\* have returned a transport: it threw and the handle is still absent.
C17_Witness ==
  /\ host = "resolves-relative"
  /\ last.op = "close" /\ last.pre = "unconnected"
  /\ last.threw = "TypeError"
  /\ ws_instance = NullHandle /\ sockets = <<>>

\* The newest transport the instance constructed.
Newest == Len(sockets)

\* C18: once connect() has constructed a second transport the handle is
\* that newest transport; send() tests and transmits on it only, close()
\* starts the shutdown of it only, and no step of the manager touches an
\* earlier transport.
C18_OnlyNewestTransport ==
  [][/\ Len(sockets') > Len(sockets) => ws_instance' = Len(sockets')
     /\ wire' # wire =>
          /\ ws_instance = Newest
          /\ sockets[Newest].readyState = ReadyState.OPEN
          /\ \E f \in { [on |-> Newest, frame |-> JSON_stringify(p)] :
                          p \in Payloads } : wire' = Append(wire, f)
     /\ (last'.op = "send" /\ last' # last /\ sockets # <<>>) =>
          /\ last'.pre = StateOf(Newest, sockets)
          /\ sockets[Newest].readyState # ReadyState.OPEN =>
               (wire' = wire /\ last'.diagnostics = 1)
     /\ \A i \in DOMAIN sockets :
          (/\ sockets'[i].readyState = ReadyState.CLOSING
           /\ sockets[i].readyState # ReadyState.CLOSING) =>
             (i = Newest /\ i = ws_instance /\ last'.op = "close")
     /\ \A i \in DOMAIN sockets :
          (i # Newest /\ sockets'[i] # sockets[i]) =>
             sockets'[i].readyState
               \in {ReadyState.OPEN, ReadyState.CLOSED}]_vars

\* After a second connect() the first transport is open and the second is
\* not yet: send() tested the second, reported, and transmitted nothing.
C18_Witness ==
  /\ Len(sockets) = 2 /\ ws_instance = 2
  /\ sockets[1].readyState = ReadyState.OPEN
  /\ sockets[2].readyState = ReadyState.CONNECTING
  /\ last.op = "send" /\ last.pre = "connecting"
  /\ last.diagnostics = 1 /\ last.sent = <<>>
  /\ wire = <<>>

\* C20: a payload given to send() while the handle is not open is dropped:
\* frames reach the wire only in a send() step taken while open, one frame
\* per call, the JSON text of that call's payload, appended in call order;
\* no transport event (in particular the handshake completing) and no other
\* operation transmits anything.
C20_DroppedNotQueued ==
  [][/\ wire' # wire =>
          /\ InstanceState = "open"
          /\ last'.op = "send" /\ last'.pre = "open"
          /\ wire' = Append(wire, [on |-> ws_instance,
                                   frame |-> JSON_stringify(last'.arg)])
          /\ sockets' = sockets /\ ws_instance' = ws_instance
     /\ (last'.op = "send" /\ last' # last) =>
          IF last'.pre = "open"
          THEN Len(wire') = Len(wire) + 1 /\ last'.diagnostics = 0
          ELSE wire' = wire /\ last'.diagnostics = 1 /\ last'.sent = <<>>
     /\ sockets' # sockets => wire' = wire]_vars

\* send() was called during the handshake, the transport has since become
\* open, and nothing has been transmitted.
C20_Witness ==
  /\ last.op = "send" /\ last.pre = "connecting"
  /\ last.diagnostics = 1
  /\ InstanceState = "open"
  /\ wire = <<>>

(***************************************************************************)
(* The caller and the handle: specification SpecExposed.  connect()        *)
(* returns the WebSocket it stores, and ws_instance is a public field, so  *)
(* the caller holds the transport and can call its methods itself.         *)
(***************************************************************************)
\* The transports the caller can reach: the value connect() returned last
\* and the value of the public field.
Exposed ==
  (IF ws_instance = NullHandle THEN {} ELSE {ws_instance})
  \cup { i \in DOMAIN sockets : last.op = "connect" /\ last.ret = Num(i) }

DirectFrames == { JSON_stringify(p) : p \in Payloads } \cup { Str("ping") }

\* p.connect().close() or p.ws_instance.close(), not through the manager
CallerClose(i) ==
  /\ i \in Exposed
  /\ LET r == WebSocket_close(i, sockets) IN
     /\ sockets' = r.sockets
     /\ last' = [NoCall EXCEPT !.op = "WebSocket.close", !.arg = Num(i),
                               !.pre = InstanceState, !.threw = r.threw]
  /\ wasClosed' = (wasClosed \/ Closed(ws_instance, sockets'))
  /\ UNCHANGED <<host, ws_instance, wire, summary, inbound, probes, shots>>

\* p.ws_instance.send(text), not through the manager
CallerSend(i, data) ==
  /\ i \in Exposed
  /\ LET r == WebSocket_send(i, sockets, wire, data) IN
     /\ Len(r.wire) <= MaxWire
     /\ wire' = r.wire
     /\ last' = [NoCall EXCEPT !.op = "WebSocket.send", !.arg = data,
                               !.pre = InstanceState, !.threw = r.threw,
                               !.sent = SubSeq(r.wire, Len(wire) + 1,
                                               Len(r.wire))]
  /\ UNCHANGED <<host, ws_instance, sockets, wasClosed, summary,
               inbound, probes, shots>>

NextExposed ==
  \/ Next
  \/ \E i \in DOMAIN sockets : CallerClose(i)
  \/ \E i \in DOMAIN sockets, data \in DirectFrames : CallerSend(i, data)

SpecExposed == Init /\ [][NextExposed]_vars

StartsClosing(i) ==
  /\ sockets'[i].readyState = ReadyState.CLOSING
  /\ sockets[i].readyState # ReadyState.CLOSING

\* C16 as claimed: the handle is not exposed, so a transport starts its
\* shutdown or carries a frame only in a step of the instance's own
\* close() or send().
C16_OnlyManagerTransitions ==
  [][/\ wire' # wire => last'.op = "send"
     /\ \A i \in DOMAIN sockets : StartsClosing(i) => last'.op = "close"]_vars

\* C16, amended: connect() hands the caller the transport it stores, the
\* same object as the public field ws_instance.  A transport is
\* constructed only by connect(); a shutdown starts, and a frame is
\* transmitted, either in the instance's close() or send(), on the handle,
\* or in a direct call by the caller on a transport so obtained.
C16_HandleReturnedToCaller ==
  [][/\ Len(sockets') > Len(sockets) =>
          /\ last'.op = "connect" /\ last'.threw = "none"
          /\ ws_instance' = Len(sockets')
          /\ last'.ret = Num(ws_instance')
          /\ ws_instance' \in Exposed'
     /\ wire' # wire =>
          \/ last'.op = "send" /\ wire'[Len(wire')].on = ws_instance
          \/ last'.op = "WebSocket.send" /\ wire'[Len(wire')].on \in Exposed
     /\ \A i \in DOMAIN sockets :
          StartsClosing(i) =>
            \/ last'.op = "close" /\ i = ws_instance
            \/ last'.op = "WebSocket.close" /\ i \in Exposed]_vars

\* The caller closed the transport it got from connect() itself: the
\* instance is closed though its close() was never the last call.
C16_Witness ==
  /\ last.op = "WebSocket.close" /\ last.pre = "open"
  /\ last.threw = "none"
  /\ ws_instance # NullHandle
  /\ sockets[ws_instance].readyState = ReadyState.CLOSING

====
